---- MODULE Spec2Model ----
(***************************************************************************)
(* Model of pg_requests/operators.py: the condition operand evaluator      *)
(* (Operand), the condition tree evaluator (ConditionOperator, And, Or),   *)
(* the query object sugar (QueryObject, Q) and field objects (FieldObject, *)
(* F).  Python values are tagged records, Python objects live in a heap of *)
(* instance dictionaries, and a call either returns a value or raises.     *)
(***************************************************************************)
EXTENDS Integers, Sequences, FiniteSets, TLC

VARIABLES
    heap,            \* the And / Or / Q / Operand instances constructed so far
    last,            \* the most recent call: what was called and how it ended
    result_default   \* the default object of parse_conditions' `result` parameter

vars == <<heap, last, result_default>>

-----------------------------------------------------------------------------
(* Python values.  Every value is a record of the same shape: a type tag t, *)
(* an integer n, a string s and a sequence v of values.                     *)

V(t, n, s, v) == [t |-> t, n |-> n, s |-> s, v |-> v]

None == V("None", 0, "", <<>>)
PyInt(n) == V("int", n, "", <<>>)
PyStr(s) == V("str", 0, s, <<>>)
PyList(v) == V("list", 0, "", v)
PyTuple(v) == V("tuple", 0, "", v)
\* a dict keeps its items in insertion order; an item is a key with its value
DictItem(k, val) == V("item", 0, k, <<val>>)
PyDict(items) == V("dict", 0, "", items)
\* a reference to the instance heap[i]
Ref(i) == V("ref", i, "", <<>>)

\* operators.py:9  NOT_A_VALUE = object()
NOT_A_VALUE == V("NOT_A_VALUE", 0, "", <<>>)

\* operators.py:266-270  FieldObject(value): _value, returned by eval()
FieldObject(text) == V("F", 0, text, <<>>)
FieldObject_eval(f) == f.s

\* str(x) as "{}".format(x) renders it, for the values the code formats
PyFormat(x) ==
    CASE x.t = "str" -> x.s
      [] x.t = "None" -> "None"
      [] x.t = "int" -> ToString(x.n)
      [] x.t = "F" -> "<FieldObject>"
      [] OTHER -> "<object>"

\* operators.py:272-273  FieldObject.__add__
FieldObject_add(f, other) ==
    FieldObject(FieldObject_eval(f) \o " + " \o PyFormat(other))

-----------------------------------------------------------------------------
(* Strings: str.split, str.join and counting occurrences.                   *)

StrSlice(s, i, j) == IF i > j THEN "" ELSE SubSeq(s, i, j)

\* the first index >= i at which sep occurs in s, or 0
RECURSIVE StrFind(_, _, _)
StrFind(s, sep, i) ==
    IF i + Len(sep) - 1 > Len(s) THEN 0
    ELSE IF StrSlice(s, i, i + Len(sep) - 1) = sep THEN i
    ELSE StrFind(s, sep, i + 1)

\* s.split(sep): the pieces between the non-overlapping occurrences of sep,
\* scanned left to right
RECURSIVE StrSplit(_, _)
StrSplit(s, sep) ==
    LET cut(i) == IF i = 0 THEN <<s>>
                  ELSE <<StrSlice(s, 1, i - 1)>>
                           \o StrSplit(StrSlice(s, i + Len(sep), Len(s)), sep)
    IN  cut(StrFind(s, sep, 1))

\* sep.join(parts)
RECURSIVE StrJoin(_, _)
StrJoin(sep, parts) ==
    IF parts = <<>> THEN ""
    ELSE IF Len(parts) = 1 THEN parts[1]
    ELSE parts[1] \o sep \o StrJoin(sep, Tail(parts))

\* the number of non-overlapping occurrences of sub in s
RECURSIVE StrCount(_, _)
StrCount(s, sub) ==
    LET count(i) == IF i = 0 THEN 0
                    ELSE 1 + StrCount(StrSlice(s, i + Len(sub), Len(s)), sub)
    IN  count(StrFind(s, sub, 1))

-----------------------------------------------------------------------------
(* Call outcomes: a call returns a value or raises an exception.            *)

Return(v) == [exc |-> "", ret |-> v, msg |-> None]
Raise(e, m) == [exc |-> e, ret |-> None, msg |-> m]
Raised(o) == o.exc # ""

-----------------------------------------------------------------------------
(* Instances.  An instance is its class name and its __dict__, the items    *)
(* set by __init__ in assignment order.                                     *)

Instance(cls, items) == [cls |-> cls, dict |-> items]

HasAttr(obj, name) == \E k \in 1..Len(obj.dict) : obj.dict[k].s = name
GetAttr(obj, name) ==
    LET k == CHOOSE k \in 1..Len(obj.dict) : obj.dict[k].s = name
    IN  obj.dict[k].v[1]

\* raised by reading an attribute __init__ never set
AttributeError(obj, name) ==
    Raise("AttributeError", PyTuple(<<PyStr(obj.cls), PyStr(name)>>))

\* isinstance(x, ConditionOperator): And and Or are its only subclasses
IsConditionOperator(h, x) == x.t = "ref" /\ h[x.n].cls \in {"And", "Or"}

\* type(x), by name
TypeName(h, x) ==
    CASE x.t = "ref" -> h[x.n].cls
      [] x.t = "F" -> "FieldObject"
      [] x.t = "None" -> "NoneType"
      [] OTHER -> x.t

\* bool(x) for the values `if not operator` tests
Truthy(x) ==
    CASE x.t = "None" -> FALSE
      [] x.t = "str" -> x.s # ""
      [] OTHER -> TRUE

-----------------------------------------------------------------------------
(* Operand: one {name} {operator} {value} comparison.                       *)

\* operators.py:44-47
Operand(name, operator, value) == V("Operand", 0, "", <<name, operator, value>>)

\* operators.py:66-70  Operand.eval: a field object is substituted into the
\* template, any other value is passed beside a '%s'
Operand_eval(op) ==
    LET name == op.v[1]
        operator == op.v[2]
        value == op.v[3]
    IN  IF value.t = "F"
        THEN PyTuple(<<PyStr(PyFormat(name) \o " " \o PyFormat(operator) \o " "
                                 \o FieldObject_eval(value)),
                       NOT_A_VALUE>>)
        ELSE PyTuple(<<PyStr(PyFormat(name) \o " " \o PyFormat(operator) \o " %s"),
                       value>>)

-----------------------------------------------------------------------------
(* ConditionOperator.                                                       *)

\* operators.py:76-92
OPERATORS ==
    <<DictItem("eq", PyStr("=")), DictItem("gt", PyStr(">")),
      DictItem("lt", PyStr("<")), DictItem("gte", PyStr(">=")),
      DictItem("lte", PyStr("<=")), DictItem("neq", PyStr("!=")),
      DictItem("is", PyStr("IS")), DictItem("is_not", PyStr("IS NOT")),
      DictItem("in", PyStr("IN")), DictItem("like", PyStr("LIKE")),
      DictItem("ilike", PyStr("ILIKE")),
      DictItem("similar_to", PyStr("SIMILAR TO"))>>

\* operators.py:93
OP_SEPARATOR == "__"

\* OPERATORS.get(key): the operator, or None for a key the table lacks
OPERATORS_get(key) ==
    IF \E k \in 1..Len(OPERATORS) : OPERATORS[k].s = key
    THEN OPERATORS[CHOOSE k \in 1..Len(OPERATORS) : OPERATORS[k].s = key].v[1]
    ELSE None

\* parse_dict_item without the fallback of operators.py:190-193: the second
\* part of a two-part key is always looked up as an operator suffix
parse_dict_item_nofallback(key, value) ==
    LET operand(keys) ==
            IF Len(keys) = 1
            THEN Return(Operand(PyStr(keys[1]), OPERATORS_get("eq"), value))
            ELSE IF Len(keys) = 2
            THEN Return(Operand(PyStr(keys[1]), OPERATORS_get(keys[2]), value))
            ELSE IF Len(keys) = 3
            THEN Return(Operand(PyStr(keys[1] \o "." \o keys[2]),
                                OPERATORS_get(keys[3]), value))
            ELSE Raise("ValueError", PyTuple(<<PyStr(key), value>>))
    IN  operand(StrSplit(key, OP_SEPARATOR))

\* operators.py:180-204  one turn of parse_dict_condition's loop: the Operand
\* of one item, or the ValueError of a key with more than three parts
parse_dict_item(key, value) ==
    LET operand(keys) ==
            IF Len(keys) = 1
            THEN Return(Operand(PyStr(keys[1]), OPERATORS_get("eq"), value))
            ELSE IF Len(keys) = 2
            THEN LET operator == OPERATORS_get(keys[2])
                 IN  IF ~Truthy(operator)
                     THEN Return(Operand(PyStr(keys[1] \o "." \o keys[2]),
                                         OPERATORS_get("eq"), value))
                     ELSE Return(Operand(PyStr(keys[1]), operator, value))
            ELSE IF Len(keys) = 3
            THEN Return(Operand(PyStr(keys[1] \o "." \o keys[2]),
                                OPERATORS_get(keys[3]), value))
            ELSE Raise("ValueError", PyTuple(<<PyStr(key), value>>))
    IN  operand(StrSplit(key, OP_SEPARATOR))

\* operators.py:164-205  parse_dict_condition: the items in iteration order,
\* stopping at the first ValueError
RECURSIVE parse_dict_from(_, _, _)
parse_dict_from(items, i, operands) ==
    LET append(o) == IF Raised(o) THEN o
                     ELSE parse_dict_from(items, i + 1, Append(operands, o.ret))
    IN  IF i > Len(items) THEN Return(PyList(operands))
        ELSE append(parse_dict_item(items[i].s, items[i].v[1]))

parse_dict_condition(condition) == parse_dict_from(condition.v, 1, <<>>)

\* operators.py:108-121  _expand_operands: every operand's sql and value
expand_operands(operands) ==
    PyTuple(<<PyList([k \in 1..Len(operands) |-> Operand_eval(operands[k]).v[1]]),
              PyList([k \in 1..Len(operands) |-> Operand_eval(operands[k]).v[2]])>>)

\* operators.py:151-162  the closing loop of parse_conditions: a prepared
\* string is appended, a token list extended; the values are extended
RECURSIVE collect_tokens(_), collect_values(_)
collect_tokens(result) ==
    IF result = <<>> THEN <<>>
    ELSE LET sql_str == result[1].v[1]
         IN  (IF sql_str.t = "str" THEN <<sql_str>> ELSE sql_str.v)
                 \o collect_tokens(Tail(result))

collect_values(result) ==
    IF result = <<>> THEN <<>>
    ELSE result[1].v[2].v \o collect_values(Tail(result))

\* operators.py:123-162  parse_conditions(conditions, result) and
\* operators.py:211-226, 253-254  eval() of the instance h[i].
\* Both give [out |-> the call's outcome, result |-> the accumulator list the
\* call worked on, as the call left it]; dflt is the default of `result`.
RECURSIVE parse_conditions(_, _, _, _), parse_each(_, _, _, _, _), eval(_, _, _)
parse_conditions(h, conditions, result, dflt) ==
    LET result0 == IF result.t = "None" THEN <<>> ELSE result.v
        done(res) == [out |-> Return(PyTuple(<<PyList(collect_tokens(res)),
                                               PyList(collect_values(res))>>)),
                      result |-> res]
        looped(r) == IF Raised(r.out) THEN r ELSE done(r.result)
        expanded(operands) ==
            IF Raised(operands)
            THEN [out |-> operands, result |-> result0]
            ELSE done(Append(result0, expand_operands(operands.ret.v)))
    IN  IF conditions.t \in {"list", "tuple"}
        THEN looped(parse_each(h, conditions.v, 1, result0, dflt))
        ELSE IF conditions.t = "dict"
        THEN expanded(parse_dict_condition(conditions))
        ELSE [out |-> Raise("Exception",
                            PyTuple(<<conditions, PyStr(TypeName(h, conditions)),
                                      PyList(result0)>>)),
              result |-> result0]

\* the loop of operators.py:135-140 with the recursive call given no
\* accumulator: what a nested list, tuple or dict contributes is dropped
parse_each_dropping(h, conds, i, result, dflt) ==
    LET append(val) ==
            IF Raised(val) THEN [out |-> val, result |-> result]
            ELSE parse_each(h, conds, i + 1, Append(result, val.ret), dflt)
        recursed(r) ==
            IF Raised(r.out) THEN r
            ELSE parse_each(h, conds, i + 1, result, dflt)
    IN  IF i > Len(conds) THEN [out |-> Return(None), result |-> result]
        ELSE IF IsConditionOperator(h, conds[i])
        THEN append(eval(h, conds[i].n, dflt).out)
        ELSE recursed(parse_conditions(h, conds[i], dflt, dflt))

\* operators.py:135-140  the loop over a list or tuple of conditions
parse_each(h, conds, i, result, dflt) ==
    LET append(val) ==
            IF Raised(val) THEN [out |-> val, result |-> result]
            ELSE parse_each(h, conds, i + 1, Append(result, val.ret), dflt)
        recursed(r) ==
            IF Raised(r.out) THEN r
            ELSE parse_each(h, conds, i + 1, r.result, dflt)
    IN  IF i > Len(conds) THEN [out |-> Return(None), result |-> result]
        ELSE IF IsConditionOperator(h, conds[i])
        THEN append(eval(h, conds[i].n, dflt).out)
        ELSE recursed(parse_conditions(h, conds[i], PyList(result), dflt))

\* operators.py:216, 225
Connective(cls) == IF cls = "Or" THEN " OR " ELSE " AND "

eval(h, i, dflt) ==
    LET self == h[i]
        joined(r) ==
            IF Raised(r.out) THEN r
            ELSE LET tokens == r.out.ret.v[1].v
                     values == r.out.ret.v[2].v
                     condition_str ==
                         StrJoin(Connective(self.cls),
                                 [k \in 1..Len(tokens) |-> tokens[k].s])
                 IN  [out |-> Return(PyTuple(
                          <<PyStr(StrJoin(" ", <<"(", condition_str, ")">>)),
                            PyTuple(values)>>)),
                      result |-> r.result]
    IN  IF self.cls = "Q"
        THEN \* operators.py:253-254
             IF HasAttr(self, "condition")
             THEN eval(h, GetAttr(self, "condition").n, dflt)
             ELSE [out |-> AttributeError(self, "condition"), result |-> <<>>]
        ELSE \* operators.py:214-217, 223-226
             IF ~HasAttr(self, "conditions")
             THEN [out |-> AttributeError(self, "conditions"), result |-> <<>>]
             ELSE joined(parse_conditions(h, GetAttr(self, "conditions"),
                                          dflt, dflt))

-----------------------------------------------------------------------------
(* Constructors and the `|` and `&` operators.  Each gives the call's       *)
(* outcome and the heap after it: [out |-> ..., heap |-> ...].              *)

\* operators.py:95-99  ConditionOperator.__init__(*args, **kwargs): the
\* instance of cls; `conditions` is set only when args or kwargs is non-empty
ConditionOperator_init(cls, args, kwargs) ==
    Instance(cls,
             IF args # <<>> THEN <<DictItem("conditions", PyTuple(args))>>
             ELSE IF kwargs # <<>> THEN <<DictItem("conditions", PyDict(kwargs))>>
             ELSE <<>>)

\* cls(*args, **kwargs) for cls And or Or: the new instance is appended
NewConditionOperator(h, cls, args, kwargs) ==
    [out |-> Return(Ref(Len(h) + 1)),
     heap |-> Append(h, ConditionOperator_init(cls, args, kwargs))]

\* operators.py:241-242  Q(**kwargs): self.condition = And(kwargs)
QueryObject_init(h, kwargs) ==
    LET a == NewConditionOperator(h, "And", <<PyDict(kwargs)>>, <<>>)
    IN  [out |-> Return(Ref(Len(h) + 2)),
         heap |-> Append(a.heap, Instance("Q", <<DictItem("condition", a.out.ret)>>))]

\* operators.py:244-248  QueryObject.__or__ / __and__ with cls Or / And:
\* cls(self.condition, other.condition)
QueryObject_combine(h, cls, self, other) ==
    IF ~HasAttr(h[self], "condition")
    THEN [out |-> AttributeError(h[self], "condition"), heap |-> h]
    ELSE IF ~HasAttr(h[other], "condition")
    THEN [out |-> AttributeError(h[other], "condition"), heap |-> h]
    ELSE NewConditionOperator(h, cls,
                              <<GetAttr(h[self], "condition"),
                                GetAttr(h[other], "condition")>>, <<>>)

\* x | y and x & y: the left operand's class must define the operator
\* (only QueryObject among the classes on the heap: operators.py:244-248);
\* no class defines the reflected one, so anything else is a TypeError
BinaryOp(h, cls, x, y) ==
    IF h[x].cls = "Q" THEN QueryObject_combine(h, cls, x, y)
    ELSE [out |-> Raise("TypeError",
                        PyTuple(<<PyStr(h[x].cls), PyStr(h[y].cls)>>)),
          heap |-> h]

-----------------------------------------------------------------------------
(* Bounds.                                                                  *)

\* the instances on the heap of the caller of Spec
MaxHeap == 3
\* the nodes in the positional arguments of one And(...) or Or(...) call
MaxSize == 3
\* the nesting of lists and tuples in them
MaxDepth == 2
\* the items of a dict of keyword arguments
MaxItems == 2

-----------------------------------------------------------------------------
(* The state machine.                                                       *)

NoInstance == Instance("", <<>>)

\* the most recent call: op names it, x and y are the heap indices of its
\* operands (0 for none), self is the instance it ran on, out its outcome
Call(op, x, y, self, out) == [op |-> op, x |-> x, y |-> y, self |-> self, out |-> out]

\* the default of `result` had it been a list, `result=[]`: the one list
\* every call without the argument appends to
DefaultAfterShared(dflt, acc) == acc

\* operators.py:124, 131-132  what the default of `result` is after a call
\* that worked on the accumulator acc: still None, since the call bound a
\* fresh list to its local name and appended to that
DefaultAfter(dflt, acc) == dflt

\* x.eval() for the instance heap[i]
Eval(i) ==
    /\ i \in 1..Len(heap)
    /\ LET returns(r) ==
               /\ last' = Call("eval", i, 0, heap[i], r.out)
               /\ result_default' = DefaultAfter(result_default, PyList(r.result))
       IN  returns(eval(heap, i, result_default))
    /\ UNCHANGED heap

\* Q(**kwargs)
NewQ(kwargs) ==
    /\ LET r == QueryObject_init(heap, kwargs)
       IN  /\ heap' = r.heap
           /\ last' = Call("Q", 0, 0, NoInstance, r.out)
    /\ UNCHANGED result_default

\* And(*args, **kwargs) and Or(*args, **kwargs)
NewCond(cls, args, kwargs) ==
    /\ LET r == NewConditionOperator(heap, cls, args, kwargs)
       IN  /\ heap' = r.heap
           /\ last' = Call(cls, 0, 0, NoInstance, r.out)
    /\ UNCHANGED result_default

\* heap[x] | heap[y] (cls Or) and heap[x] & heap[y] (cls And); a call that
\* raises is recorded by its exception, which names the operands' classes
Combine(cls, x, y) ==
    /\ x \in 1..Len(heap) /\ y \in 1..Len(heap)
    /\ LET r == BinaryOp(heap, cls, x, y)
           op == IF cls = "Or" THEN "|" ELSE "&"
       IN  /\ heap' = r.heap
           /\ last' = IF Raised(r.out) THEN Call(op, 0, 0, NoInstance, r.out)
                      ELSE Call(op, x, y, NoInstance, r.out)
    /\ UNCHANGED result_default

Classes == {"And", "Or"}

-----------------------------------------------------------------------------
(* Spec: a caller that builds Q objects, combines the instances it holds    *)
(* with | and & and evaluates them, in any order.                           *)

\* the keyword arguments Q is called with
QKwargs ==
    {<<>>, <<DictItem("b", PyInt(2))>>, <<DictItem("c", PyInt(3))>>}

\* the instances the caller holds a reference to: those its calls returned
\* (the And inside a Q is reached through the Q)
Handles(h) ==
    {i \in 1..Len(h) :
        ~\E q \in 1..Len(h) : h[q].cls = "Q" /\ GetAttr(h[q], "condition") = Ref(i)}

\* the positional arguments And and Or are called with: none, or a dict
\* shorthand and an instance the caller holds
DictA == PyDict(<<DictItem("a", PyInt(1))>>)
ArgTuples(h) == {<<>>} \cup {<<DictA, Ref(i)>> : i \in Handles(h)}

Init ==
    /\ heap = <<>>
    /\ last = Call("init", 0, 0, NoInstance, Return(None))
    /\ result_default = None

\* every call is bounded by the heap it leaves: at most MaxHeap instances
Next ==
    \/ \E kwargs \in QKwargs : NewQ(kwargs) /\ Len(heap') <= MaxHeap
    \/ \E cls \in Classes : \E args \in ArgTuples(heap) :
           NewCond(cls, args, <<>>) /\ Len(heap') <= MaxHeap
    \/ \E cls \in Classes : \E x, y \in Handles(heap) :
           Combine(cls, x, y) /\ Len(heap') <= MaxHeap
    \/ \E i \in Handles(heap) : Eval(i)

Spec == Init /\ [][Next]_vars

-----------------------------------------------------------------------------
(* SpecEval: a caller that, beside a few instances it already holds, builds *)
(* one And, Or or Q from arguments drawn from bounded sets and evaluates    *)
(* it once.                                                                 *)

KwB == <<DictItem("b", PyInt(2))>>
KwC == <<DictItem("c", PyInt(3))>>

\* the instances held at the start:
\*   1, 2: Q(b=2) and its And      3, 4: Q(c=3) and its And
\*   5: Or(Q(b=2), Q(c=3))         6: Q(b=2) | Q(c=3)
\*   7: And(Q(b=2), Q(c=3))        8: Q(b=2) & Q(c=3)
\*   9: And()
Held1 == QueryObject_init(<<>>, KwB).heap
Held2 == QueryObject_init(Held1, KwC).heap
Held5 == NewConditionOperator(Held2, "Or", <<Ref(2), Ref(4)>>, <<>>).heap
Held6 == BinaryOp(Held5, "Or", 2, 4).heap
Held7 == NewConditionOperator(Held6, "And", <<Ref(2), Ref(4)>>, <<>>).heap
Held8 == BinaryOp(Held7, "And", 2, 4).heap
Held == NewConditionOperator(Held8, "And", <<>>, <<>>).heap

\* values of dict shorthand items: scalars, a list, a tuple, a field object
FieldTotal == FieldObject_add(FieldObject("total"), PyInt(1))
ListValue == PyList(<<PyStr("val1"), PyStr("val2")>>)
TupleValue == PyTuple(<<PyInt(1), PyInt(2)>>)
Values == {PyInt(1), PyStr("x"), ListValue, TupleValue, FieldTotal}

\* shorthand keys: a field, a field with a suffix, a table and a field, all
\* three, and keys that fit none of these
Suffixes ==
    {"eq", "gt", "lt", "gte", "lte", "neq", "is", "is_not", "in", "like",
     "ilike", "similar_to"}
FieldKey == "a"
SuffixKey(s) == "a" \o "__" \o s
TableKey == "t" \o "__" \o "a"
TableSuffixKey(s) == "t" \o "__" \o "a" \o "__" \o s
UnknownSuffixKey == "t" \o "__" \o "a" \o "__" \o "bogus"
FourPartKey == "a" \o "__" \o "b" \o "__" \o "c" \o "__" \o "d"
Keys ==
    {FieldKey, TableKey, UnknownSuffixKey, FourPartKey}
        \cup {SuffixKey(s) : s \in Suffixes}
        \cup {TableSuffixKey(s) : s \in Suffixes}

\* dicts of several items are drawn from fewer keys and values
FewKeys == {FieldKey, SuffixKey("gte"), TableKey, UnknownSuffixKey, FourPartKey}
FewValues == {PyInt(1), FieldTotal}

\* the item sequences of n items with distinct keys
RECURSIVE ItemSeqs(_)
ItemSeqs(n) ==
    IF n = 0 THEN {<<>>}
    ELSE {Append(items, DictItem(k, v)) :
              items \in {q \in ItemSeqs(n - 1) :
                             \A j \in 1..Len(q) : q[j].s \in FewKeys},
              k \in FewKeys, v \in FewValues}

DistinctKeys(items) ==
    \A i, j \in 1..Len(items) : i # j => items[i].s # items[j].s

\* the dicts (as item sequences) the caller passes as keyword arguments
Dicts ==
    {<<>>} \cup {<<DictItem(k, v)>> : k \in Keys, v \in Values}
           \cup {items \in UNION {ItemSeqs(n) : n \in 2..MaxItems} :
                     DistinctKeys(items)}

\* the conditions the caller passes as positional arguments: dicts, the
\* instances it holds, an Operand, an integer, and lists and tuples of these
DictIn == PyDict(<<DictItem(SuffixKey("in"), ListValue),
                   DictItem(TableSuffixKey("gte"), FieldTotal)>>)
Atoms ==
    {DictA, DictIn, PyDict(<<>>), PyInt(5),
     Operand(PyStr("a"), PyStr("="), PyInt(1)),
     Ref(1), Ref(3), Ref(2), Ref(5)}

\* CondsOfSize(n, d): the sequences of conditions with n nodes in all (an
\* atom, a list or a tuple is a node) nested at most d deep
RECURSIVE CondsOfSize(_, _), NodesOfSize(_, _)
CondsOfSize(n, d) ==
    IF n = 0 THEN {<<>>}
    ELSE UNION {{<<e>> \o rest : e \in NodesOfSize(k, d),
                                 rest \in CondsOfSize(n - k, d)} : k \in 1..n}

NodesOfSize(k, d) ==
    (IF k = 1 THEN Atoms ELSE {})
        \cup (IF d > 0
              THEN UNION {{PyList(c), PyTuple(c)} : c \in CondsOfSize(k - 1, d - 1)}
              ELSE {})

Conds == UNION {CondsOfSize(n, MaxDepth) : n \in 0..MaxSize}

InitEval ==
    /\ heap = Held
    /\ last = Call("init", 0, 0, NoInstance, Return(None))
    /\ result_default = None

NextEval ==
    \/ /\ last.op = "init"
       /\ \E cls \in Classes : \E args \in Conds : NewCond(cls, args, <<>>)
    \/ /\ last.op = "init"
       /\ \E cls \in Classes : \E kwargs \in Dicts : NewCond(cls, <<>>, kwargs)
    \/ /\ last.op = "init"
       /\ \E kwargs \in Dicts : NewQ(kwargs)
    \/ /\ last.op = "init"
       /\ \E i \in 1..Len(heap) : Eval(i)
    \/ /\ last.op \in {"And", "Or", "Q"}
       /\ Eval(last.out.ret.n)

SpecEval == InitEval /\ [][NextEval]_vars

-----------------------------------------------------------------------------
(* What the claims speak of.                                                *)

\* the conditions the instance holds (for a Q: those of its And), or None
ConditionsOf(h, inst) ==
    IF inst.cls = "Q"
    THEN LET a == h[GetAttr(inst, "condition").n]
         IN  IF HasAttr(a, "conditions") THEN GetAttr(a, "conditions") ELSE None
    ELSE IF HasAttr(inst, "conditions") THEN GetAttr(inst, "conditions") ELSE None

\* an And, Or or Q has just been evaluated
Evaluated == last.op = "eval"
Returned == Evaluated /\ ~Raised(last.out)
Fragment == last.out.ret.v[1].s
BoundValues == last.out.ret.v[2].v
Result(sql, values) == Return(PyTuple(<<PyStr(sql), PyTuple(values)>>))

RECURSIVE Concat(_)
Concat(seqs) == IF seqs = <<>> THEN <<>> ELSE seqs[1] \o Concat(Tail(seqs))

\* the values of the leaves under a condition node, depth first, left to
\* right, a field object counting for none
RECURSIVE LeafValues(_, _)
LeafValues(h, c) ==
    CASE c.t \in {"list", "tuple"} ->
             Concat([k \in 1..Len(c.v) |-> LeafValues(h, c.v[k])])
      [] c.t = "dict" ->
             Concat([k \in 1..Len(c.v) |->
                        IF c.v[k].v[1].t = "F" THEN <<>> ELSE <<c.v[k].v[1]>>])
      [] c.t = "ref" -> LeafValues(h, ConditionsOf(h, h[c.n]))
      [] OTHER -> <<>>

(* C1: whenever And.eval / Or.eval returns, the fragment holds as many '%s' *)
(* placeholders as the values tuple has entries, and the values are the     *)
(* leaves' values in left-to-right order; a leaf whose value is a field     *)
(* object adds no placeholder and no entry.                                 *)
C1_PlaceholdersMatchValues ==
    Returned =>
        /\ StrCount(Fragment, "%s") = Len(BoundValues)
        /\ BoundValues = LeafValues(heap, ConditionsOf(heap, last.self))

\* the tokens and values a sequence of conditions contributes, element by
\* element: a nested And / Or its own fragment and values, a list or tuple
\* what its elements contribute, a dict one token and one value per key
RECURSIVE Parts(_, _)
Parts(h, c) ==
    CASE c.t = "ref" ->
             LET e == eval(h, c.n, None).out.ret
             IN  <<[tok |-> e.v[1].s, vals |-> e.v[2].v]>>
      [] c.t \in {"list", "tuple"} ->
             Concat([k \in 1..Len(c.v) |-> Parts(h, c.v[k])])
      [] c.t = "dict" ->
             [k \in 1..Len(c.v) |->
                 LET e == Operand_eval(parse_dict_item(c.v[k].s, c.v[k].v[1]).ret)
                 IN  [tok |-> e.v[1].s, vals |-> <<e.v[2]>>]]
      [] OTHER -> <<>>

Parenthesized(tok) ==
    /\ Len(tok) >= 2
    /\ StrSlice(tok, 1, 1) = "("
    /\ StrSlice(tok, Len(tok), Len(tok)) = ")"

(* C2: an And / Or over a sequence of conditions that returns has walked    *)
(* the sequence depth first, left to right: its fragment joins one token    *)
(* per dict key and one parenthesized token per nested And / Or, each once  *)
(* and in input order, also through nested lists and tuples, and its values *)
(* are the elements' values concatenated in that order; And(And(b=2),       *)
(* And(c=3)) gives '( ( b = %s ) AND ( c = %s ) )' with (2, 3).             *)
C2_DepthFirstLeftToRight ==
    /\ (Returned /\ last.self.cls \in Classes
            /\ ConditionsOf(heap, last.self).t = "tuple") =>
           LET c == ConditionsOf(heap, last.self)
               parts == Parts(heap, c)
               toks == [k \in 1..Len(parts) |-> parts[k].tok]
           IN  /\ Fragment = "( " \o StrJoin(Connective(last.self.cls), toks) \o " )"
               /\ BoundValues = Concat([k \in 1..Len(parts) |-> parts[k].vals])
               /\ \A k \in 1..Len(c.v) :
                      c.v[k].t = "ref" => Parenthesized(Parts(heap, c.v[k])[1].tok)
    /\ (Evaluated /\ last.self = ConditionOperator_init("And", <<Ref(1), Ref(3)>>, <<>>)) =>
           last.out = Result("( ( b = %s ) AND ( c = %s ) )", <<PyInt(2), PyInt(3)>>)

\* an And over a list holding a dict of two keys, and a nested And, has
\* been evaluated and returned
C2_Witness ==
    /\ Returned
    /\ last.self = ConditionOperator_init(
                       "And", <<PyList(<<DictIn>>), Ref(1)>>, <<>>)

(* C3: Q(b=2) | Q(c=3) and Or(Q(b=2), Q(c=3)) both return, and return the   *)
(* same fragment and values; likewise & and And.                            *)
C3_CombinatorMatchesConstructor ==
    \A cls \in Classes : \A x, y, q1, q2 \in 1..Len(heap) :
        (/\ Evaluated /\ last.x \in {x, y}
         /\ heap[q1].cls = "Q" /\ heap[q2].cls = "Q" /\ q1 # q2
         /\ q1 < x /\ q2 < x
         /\ LET r == BinaryOp(SubSeq(heap, 1, x - 1), cls, q1, q2)
            IN  ~Raised(r.out) /\ r.heap = SubSeq(heap, 1, x)
         /\ heap[y] = ConditionOperator_init(cls, <<Ref(q1), Ref(q2)>>, <<>>))
        => /\ ~Raised(eval(heap, x, None).out)
           /\ ~Raised(eval(heap, y, None).out)
           /\ eval(heap, x, None).out = eval(heap, y, None).out

(* C4: And({'a': 1}, Or(Q(b=2), Q(c=3))) evaluates to                        *)
(* '( a = %s AND ( b = %s OR c = %s ) )' with values (1, 2, 3).             *)
C4_NestedExample ==
    (/\ Evaluated
     /\ last.self = ConditionOperator_init("And", <<DictA, Ref(5)>>, <<>>)
     /\ heap[5] = ConditionOperator_init("Or", <<Ref(2), Ref(4)>>, <<>>)
     /\ ConditionsOf(heap, heap[2]) = PyTuple(<<PyDict(KwB)>>)
     /\ ConditionsOf(heap, heap[4]) = PyTuple(<<PyDict(KwC)>>))
    => last.out = Result("( a = %s AND ( b = %s OR c = %s ) )",
                         <<PyInt(1), PyInt(2), PyInt(3)>>)

\* the SQL operator of each suffix
SqlOp(s) ==
    CASE s = "eq" -> "="  [] s = "gt" -> ">"  [] s = "lt" -> "<"
      [] s = "gte" -> ">="  [] s = "lte" -> "<="  [] s = "neq" -> "!="
      [] s = "is" -> "IS"  [] s = "is_not" -> "IS NOT"  [] s = "in" -> "IN"
      [] s = "like" -> "LIKE"  [] s = "ilike" -> "ILIKE"
      [] s = "similar_to" -> "SIMILAR TO"

\* the instance just evaluated holds the one-item dict {key: value}, as
\* keyword arguments or as the single positional argument
HoldsItem(key, value) ==
    /\ Evaluated
    /\ ConditionsOf(heap, last.self)
           \in {PyDict(<<DictItem(key, value)>>),
                PyTuple(<<PyDict(<<DictItem(key, value)>>)>>)}

GivesToken(key, value, tok) ==
    HoldsItem(key, value) =>
        /\ last.out = Result("( " \o tok \o " )", <<value>>)
        /\ StrCount(Fragment, "%s") = 1

(* C5: a key 'a' gives 'a = %s'; 'a__s' with s one of the 12 suffixes gives *)
(* 'a <SQL_OP> %s'; 't__a' gives 't.a = %s'; 't__a__s' gives                *)
(* 't.a <SQL_OP> %s'.  In each case the bound value is the value as given,  *)
(* a list or tuple included, under one placeholder: And(a__in=[v1, v2])     *)
(* gives '( a IN %s )' with ([v1, v2],).                                    *)
C5_ShorthandKeyPolicy ==
    /\ \A v \in Values \ {FieldTotal} :
           /\ GivesToken(FieldKey, v, "a = %s")
           /\ GivesToken(TableKey, v, "t.a = %s")
           /\ \A s \in Suffixes :
                  /\ GivesToken(SuffixKey(s), v, "a " \o SqlOp(s) \o " %s")
                  /\ GivesToken(TableSuffixKey(s), v, "t.a " \o SqlOp(s) \o " %s")
    /\ (Evaluated /\ last.self = ConditionOperator_init(
                                     "And", <<>>, <<DictItem("a__in", ListValue)>>)) =>
           last.out = Result("( a IN %s )", <<ListValue>>)

\* a table, field and suffix key with a list value has been evaluated
C5_Witness ==
    /\ HoldsItem(TableSuffixKey("similar_to"), ListValue)
    /\ last.self.cls = "And"
    /\ Returned

\* the key fits none of the shorthand forms
BadKey(key) ==
    LET parts == StrSplit(key, "__")
    IN  \/ Len(parts) \notin {1, 2, 3}
        \/ Len(parts) = 3 /\ parts[3] \notin Suffixes

(* C6: evaluating a dict condition with a key of other than 1, 2 or 3       *)
(* parts, or of 3 parts whose third is no known suffix, raises the          *)
(* shorthand-key error; no fragment with an unresolved operator is          *)
(* returned.                                                                *)
C6_BadKeysRaise ==
    Evaluated =>
        LET c == ConditionsOf(heap, last.self)
            d == IF c.t = "tuple" /\ Len(c.v) = 1 THEN c.v[1] ELSE c
        IN  /\ (d.t = "dict" /\ \E k \in 1..Len(d.v) : BadKey(d.v[k].s))
                   => last.out.exc = "ValueError"
            /\ ~Raised(last.out) => StrFind(Fragment, "None", 1) = 0

\* the tree an operand of | or & stands for: a Q's And, or the And / Or itself
TreeOf(h, x) == IF h[x].cls = "Q" THEN GetAttr(h[x], "condition") ELSE Ref(x)

\* heap[x] | heap[y] (cls Or) or heap[x] & heap[y] (cls And) returns a new
\* cls over the two operands' trees, which evaluates
Combines(cls, x, y) ==
    LET r == BinaryOp(heap, cls, x, y)
    IN  /\ ~Raised(r.out)
        /\ r.heap = Append(heap, ConditionOperator_init(
                                     cls, <<TreeOf(heap, x), TreeOf(heap, y)>>, <<>>))
        /\ ~Raised(eval(r.heap, Len(r.heap), None).out)

(* C7: | and & are closed over condition trees: the result of a | or & can  *)
(* itself be combined, on either side, with a Q, and that gives a new       *)
(* Or / And over the two operands' trees that evaluates.                    *)
C7_CombinatorsClosed ==
    (last.op \in {"|", "&"} /\ ~Raised(last.out)) =>
        \A cls \in Classes : \A q \in 1..Len(heap) :
            heap[q].cls = "Q" =>
                /\ Combines(cls, last.out.ret.n, q)
                /\ Combines(cls, q, last.out.ret.n)

\* the instance holds no condition at all
ZeroConditions(h, inst) ==
    \/ inst.cls \in Classes /\ inst.dict = <<>>
    \/ ConditionsOf(h, inst) \in {PyDict(<<>>), PyTuple(<<PyDict(<<>>)>>)}

(* C9: evaluating an And or Or that holds zero conditions (And(), And({}),  *)
(* Or(), Q()) returns '(  )' and an empty values tuple, and does not raise. *)
C9_ZeroConditions ==
    (Evaluated /\ ZeroConditions(heap, last.self)) => last.out = Result("(  )", <<>>)

\* a sequence, a mapping or an Evaluable (Operand, field object, And, Or, Q)
Acceptable(h, x) ==
    \/ x.t \in {"list", "tuple", "dict", "Operand", "F"}
    \/ x.t = "ref" /\ h[x.n].cls \in {"And", "Or", "Q"}

(* C10: a condition node is rejected exactly when it is neither a sequence, *)
(* a mapping nor an Evaluable: the error names the node and its type;       *)
(* Evaluable nodes inside a sequence are accepted.                          *)
C10_RejectsExactlyNonEvaluables ==
    Evaluated =>
        /\ last.out.exc = "Exception" =>
               /\ ~Acceptable(heap, last.out.msg.v[1])
               /\ last.out.msg.v[2] = PyStr(TypeName(heap, last.out.msg.v[1]))
        /\ LET c == ConditionsOf(heap, last.self)
           IN  (c.t = "tuple" /\ Len(c.v) >= 1 /\ ~Acceptable(heap, c.v[1])) =>
                   /\ last.out.exc = "Exception"
                   /\ last.out.msg.v[1] = c.v[1]

-----------------------------------------------------------------------------
(* C8: evaluation and combination are pure.  Every step of the caller (an  *)
(* eval(), a `|` or `&`, a constructor call) leaves every existing And, Or *)
(* and Q instance as it was, leaves the value eval() returns for each of   *)
(* them as it was (so evaluating a tree again, after any interleaving with *)
(* other calls, returns what its first evaluation returned), and leaves no *)
(* accumulator behind for the next parse_conditions call.                  *)
C8_EvalAndCombineArePure ==
    [][/\ Len(heap') >= Len(heap)
       /\ \A i \in 1..Len(heap) :
              /\ heap'[i] = heap[i]
              /\ eval(heap', i, result_default').out = eval(heap, i, result_default).out
       /\ last'.op = "eval" => last'.out = eval(heap, last'.x, None).out
       /\ result_default' = result_default]_vars

\* an instance sharing one subtree twice has been evaluated, after a `|` or
\* `&` built it, and returned a fragment
C8_Witness ==
    /\ last.op = "eval"
    /\ ~Raised(last.out)
    /\ HasAttr(last.self, "conditions")
    /\ LET c == GetAttr(last.self, "conditions")
       IN  c.t = "tuple" /\ Len(c.v) = 2 /\ c.v[1] = c.v[2] /\ c.v[1].t = "ref"

====
